---- MODULE Spec2Model ----
(***************************************************************************)
(* ceilometer/publisher/messaging.py: MessagingPublisher.                  *)
(*                                                                         *)
(* The publisher keeps self.local_queue, a list of (context, topic,        *)
(* meters) tuples.  publish_samples() appends to it and calls flush();     *)
(* flush() detaches the list, hands it to _process_queue(), and puts what  *)
(* _process_queue() returns in front of whatever is in self.local_queue by *)
(* then.  The only point where a call can be suspended is inside _send()   *)
(* (the transport's I/O, run by eventlet), so every greenthread is either  *)
(* outside a call or inside the _send() of the head of its detached list.  *)
(***************************************************************************)
EXTENDS Integers, Sequences, FiniteSets, TLC

\* ---------------------------------------------------------------- bounds
\* number of batches ever enqueued in one behaviour
MaxBatches == 3
\* number of _send() invocations in one behaviour
MaxSends == 4
\* number of calls in one behaviour that start while another call is running
MaxOverlaps == 1
\* number of samples in one publish_samples() call of SpecBuild
MaxSamples == 3

\* Calls in progress.  Greenthreads have no identity the publisher can see,
\* so a new call takes the first free slot.
Procs == {1, 2}
\* counter names, in ascending string order
Names == <<"A", "B">>

Smp(n, v) == [counter_name |-> n, counter_volume |-> v]

\* the (context, samples) arguments publish_samples() is called with
Inputs ==
    << [context |-> "ctx1", samples |-> <<Smp("A", 1)>>],
       [context |-> "ctx2", samples |-> <<Smp("B", 1), Smp("A", 2)>>],
       [context |-> "ctx1", samples |-> <<>>] >>

\* every list of at most MaxSamples samples; the volume of a sample is its
\* position in the list, so no two samples of a list are equal
SampleLists ==
    UNION { { [i \in 1..n |-> Smp(Names[f[i]], i)] :
                f \in [1..n -> 1..Len(Names)] } : n \in 0..MaxSamples }

Contexts == {"ctx1", "ctx2"}

\* Without fan-out every call appends one tuple whatever its arguments, so the
\* calls take the inputs in turn; with fan-out the number of tuples depends on
\* the samples and any input may come.
InputsAt(fanout, n) ==
    IF fanout THEN {Inputs[i] : i \in 1..Len(Inputs)}
    ELSE {Inputs[((n - 1) % Len(Inputs)) + 1]}

\* query strings of the publisher URL, as urlparse.parse_qs() returns them:
\* every key maps to the list of its values, an absent key to no list.  An
\* option given twice occurs in one URL each, a queue length with policy queue.
UrlOptions ==
    { o \in [ per_meter_topic  : {<<>>, <<"1">>, <<"1", "0">>},
              policy           : {<<>>, <<"default">>, <<"queue">>, <<"drop">>,
                                  <<"bogus">>, <<"drop", "queue">>},
              max_queue_length : {<<>>, <<"0">>, <<"1">>, <<"2">>} ] :
        /\ (o.max_queue_length # <<>>) => o.policy = <<"queue">>
        /\ (o.per_meter_topic = <<"1", "0">>) <=> (o.policy = <<"default">>)
        /\ (o.policy = <<"drop", "queue">>) => o.per_meter_topic = <<>> }

VARIABLES
    url_options,       \* urlparse.parse_qs(parsed_url.query), as __init__ got it
    per_meter_topic,   \* self.per_meter_topic
    policy,            \* self.policy
    max_queue_length,  \* self.max_queue_length
    retry,             \* self.retry
    local_queue,       \* self.local_queue
    queue,             \* flush()'s local list `queue`, per greenthread
    pc,                \* "idle", or "send": suspended inside _send(queue[0])
    op,                \* the call running in a slot: "publish", "flush", "none"
    detached,          \* what flush() detached when the running call began
    nextId,            \* number of the next batch to be enqueued
    overlaps,          \* calls so far that started while another was running
    hist               \* LOG records, enqueues, _send() calls, ends of flush

vars == << url_options, per_meter_topic, policy, max_queue_length, retry, local_queue,
           queue, pc, op, detached, nextId, overlaps, hist >>

config == << url_options, per_meter_topic, policy, max_queue_length, retry >>

\* ------------------------------------------------------------- helpers
Last(s) == s[Len(s)]

\* int() of the option strings that occur
IntOf(s) ==
    CASE s = "0" -> 0
      [] s = "1" -> 1
      [] s = "2" -> 2
      [] s = "3" -> 3

\* options.get(key, default)[-1]
OptionGet(options, key, default) ==
    IF options[key] = <<>> THEN default ELSE Last(options[key])

RECURSIVE SumLen(_)
\* sum([len(m) for __, __, m in queue])
SumLen(q) == IF q = <<>> THEN 0 ELSE Len(Head(q).meters) + SumLen(Tail(q))

Ids(q) == [i \in 1..Len(q) |-> q[i].id]

\* ------------------------------------------------- building the batches
\* cfg.CONF.publisher_rpc.metering_topic
metering_topic == "metering"

\* utils.meter_message_from_counter(sample, secret): the serialized record
meter_message_from_counter(sample) ==
    [ counter_name      |-> sample.counter_name,
      counter_volume    |-> sample.counter_volume,
      message_signature |-> "signed" ]

Rank(name) == CHOOSE i \in 1..Len(Names) : Names[i] = name

RECURSIVE InsertSorted_BeforeEqual(_, _)
\* faulty variant: an unstable sort, equal keys come out in reverse order
InsertSorted_BeforeEqual(s, x) ==
    IF s = <<>> THEN <<x>>
    ELSE IF Rank(x.counter_name) <= Rank(Head(s).counter_name)
         THEN <<x>> \o s
         ELSE <<Head(s)>> \o InsertSorted_BeforeEqual(Tail(s), x)

RECURSIVE InsertSorted_Descending(_, _)
\* faulty variant: a stable sort in descending order of counter_name
InsertSorted_Descending(s, x) ==
    IF s = <<>> THEN <<x>>
    ELSE IF Rank(x.counter_name) > Rank(Head(s).counter_name)
         THEN <<x>> \o s
         ELSE <<Head(s)>> \o InsertSorted_Descending(Tail(s), x)

RECURSIVE InsertSorted(_, _)
\* sorted(): where the next meter goes among those already sorted
InsertSorted(s, x) ==
    IF s = <<>> THEN <<x>>
    ELSE IF Rank(x.counter_name) < Rank(Head(s).counter_name)
         THEN <<x>> \o s
         ELSE <<Head(s)>> \o InsertSorted(Tail(s), x)

RECURSIVE SortedByName(_)
\* sorted(meters, key=operator.itemgetter('counter_name')): a stable sort
SortedByName(meters) ==
    IF meters = <<>> THEN <<>>
    ELSE InsertSorted(SortedByName(SubSeq(meters, 1, Len(meters) - 1)),
                      Last(meters))

\* length of the run of equal counter_name at the head of s
RunLen(s) ==
    CHOOSE n \in 1..Len(s) :
        /\ \A i \in 1..n : s[i].counter_name = s[1].counter_name
        /\ n < Len(s) => s[n + 1].counter_name # s[1].counter_name

RECURSIVE GroupBy_FirstOfRun(_)
\* faulty variant: a group keeps the first meter of its run only
GroupBy_FirstOfRun(s) ==
    IF s = <<>> THEN <<>>
    ELSE <<[meter_name |-> s[1].counter_name, meter_list |-> <<s[1]>>]>>
         \o GroupBy_FirstOfRun(SubSeq(s, RunLen(s) + 1, Len(s)))

RECURSIVE GroupBy(_)
\* itertools.groupby(s, operator.itemgetter('counter_name')): one group per
\* run of consecutive equal keys
GroupBy(s) ==
    IF s = <<>> THEN <<>>
    ELSE <<[meter_name |-> s[1].counter_name,
            meter_list |-> SubSeq(s, 1, RunLen(s))]>>
         \o GroupBy(SubSeq(s, RunLen(s) + 1, Len(s)))

\* faulty variant: the per-meter tuples are appended whatever the option says
NewBatches_AlwaysFanOut(context, samples, fanout, first) ==
    LET meters == [i \in 1..Len(samples) |->
                       meter_message_from_counter(samples[i])]
        groups == GroupBy(SortedByName(meters))
        tuples == <<[context |-> context, topic |-> metering_topic,
                     meters |-> meters]>>
                  \o [i \in 1..Len(groups) |->
                         [context |-> context,
                          topic   |-> metering_topic \o "." \o
                                      groups[i].meter_name,
                          meters  |-> groups[i].meter_list]]
    IN  [i \in 1..Len(tuples) |->
            [id |-> first + i - 1, context |-> tuples[i].context,
             topic |-> tuples[i].topic, meters |-> tuples[i].meters]]

\* faulty variant: nothing is appended for an empty list of samples
NewBatches_SkipsEmpty(context, samples, fanout, first) ==
    LET meters == [i \in 1..Len(samples) |->
                       meter_message_from_counter(samples[i])]
        groups == IF fanout THEN GroupBy(SortedByName(meters)) ELSE <<>>
        tuples == <<[context |-> context, topic |-> metering_topic,
                     meters |-> meters]>>
                  \o [i \in 1..Len(groups) |->
                         [context |-> context,
                          topic   |-> metering_topic \o "." \o
                                      groups[i].meter_name,
                          meters  |-> groups[i].meter_list]]
    IN  IF samples = <<>> THEN <<>>
        ELSE [i \in 1..Len(tuples) |->
                 [id |-> first + i - 1, context |-> tuples[i].context,
                  topic |-> tuples[i].topic, meters |-> tuples[i].meters]]

\* the (context, topic, meters) tuples publish_samples() appends, in order;
\* id is the position of the tuple in the order of all appends
NewBatches(context, samples, fanout, first) ==
    LET meters == [i \in 1..Len(samples) |->
                       meter_message_from_counter(samples[i])]
        groups == IF fanout THEN GroupBy(SortedByName(meters)) ELSE <<>>
        tuples == <<[context |-> context, topic |-> metering_topic,
                     meters |-> meters]>>
                  \o [i \in 1..Len(groups) |->
                         [context |-> context,
                          topic   |-> metering_topic \o "." \o
                                      groups[i].meter_name,
                          meters  |-> groups[i].meter_list]]
    IN  [i \in 1..Len(tuples) |->
            [id |-> first + i - 1, context |-> tuples[i].context,
             topic |-> tuples[i].topic, meters |-> tuples[i].meters]]

\* ------------------------------------------------------------ the queue
\* faulty variant: the new tuples are put at the head of the list
Enqueue_AtHead(q, batches) == batches \o q

\* self.local_queue.append(...) for each new tuple
Enqueue(q, batches) == q \o batches

\* faulty variant: evicts as soon as the bound is reached
CheckQueueLength_EvictsAtBound(q, max) ==
    IF Len(q) >= max /\ max > 0
    THEN LET count == Len(q) - max + 1 IN SubSeq(q, count + 1, Len(q))
    ELSE q

\* faulty variant: keeps one tuple more than the bound
CheckQueueLength_KeepsOneMore(q, max) ==
    IF Len(q) > max /\ max > 0
    THEN LET count == Len(q) - max - 1 IN SubSeq(q, count + 1, Len(q))
    ELSE q

\* faulty variant: keeps the oldest tuples instead of the newest
CheckQueueLength_KeepsOldest(q, max) ==
    IF Len(q) > max /\ max > 0 THEN SubSeq(q, 1, max) ELSE q

\* faulty variant: a bound of 0 is a bound like any other
CheckQueueLength_ZeroIsBound(q, max) ==
    IF Len(q) > max
    THEN LET count == Len(q) - max IN SubSeq(q, count + 1, Len(q))
    ELSE q

\* _check_queue_length(): the queue it leaves
CheckQueueLength(q, max) ==
    IF Len(q) > max /\ max > 0
    THEN LET count == Len(q) - max IN SubSeq(q, count + 1, Len(q))
    ELSE q

\* _check_queue_length(): the count it logs, 0 when it logs nothing
DroppedCount(q, max) ==
    IF Len(q) > max /\ max > 0 THEN Len(q) - max ELSE 0

\* faulty variant: what arrived in self.local_queue meanwhile is overwritten
Reconcile_OverwritesLive(remainder, live) == remainder

\* flush(): self.local_queue = _process_queue(...) + self.local_queue
Reconcile(remainder, live) == remainder \o live

\* flush(): the queue once _process_queue() has returned `remainder`
AfterFlush(remainder, live, pol, max) ==
    IF pol = "queue"
    THEN CheckQueueLength(Reconcile(remainder, live), max)
    ELSE Reconcile(remainder, live)

\* faulty variant: queue.pop() takes the last tuple
PopHead_PopsLast(q) == SubSeq(q, 1, Len(q) - 1)

\* faulty variant: the tuple just sent is not popped
PopHead_KeepsHead(q) == q

\* _process_queue(): queue.pop(0) after a _send() that returned
PopHead(q) == Tail(q)

\* faulty variant: policy drop discards the failing tuple only
OnDeliveryFailure_DropKeepsRest(q, pol) ==
    CASE pol = "queue" -> [raise |-> FALSE, ret |-> q]
      [] pol = "drop"  -> [raise |-> FALSE, ret |-> Tail(q)]
      [] OTHER         -> [raise |-> TRUE,  ret |-> <<>>]

\* faulty variant: policy queue retains the tuples behind the failing one only
OnDeliveryFailure_QueueSkipsHead(q, pol) ==
    CASE pol = "queue" -> [raise |-> FALSE, ret |-> Tail(q)]
      [] pol = "drop"  -> [raise |-> FALSE, ret |-> <<>>]
      [] OTHER         -> [raise |-> TRUE,  ret |-> <<>>]

\* faulty variant: policy default swallows the failure
OnDeliveryFailure_DefaultSwallows(q, pol) ==
    CASE pol = "queue" -> [raise |-> FALSE, ret |-> q]
      [] pol = "drop"  -> [raise |-> FALSE, ret |-> <<>>]
      [] OTHER         -> [raise |-> FALSE, ret |-> <<>>]

\* faulty variant: policy drop re-raises the failure
OnDeliveryFailure_DropRaises(q, pol) ==
    CASE pol = "queue" -> [raise |-> FALSE, ret |-> q]
      [] OTHER         -> [raise |-> TRUE,  ret |-> <<>>]

\* _process_queue(): the except clause for MessageDeliveryFailure
OnDeliveryFailure(q, pol) ==
    CASE pol = "queue" -> [raise |-> FALSE, ret |-> q]
      [] pol = "drop"  -> [raise |-> FALSE, ret |-> <<>>]
      [] OTHER         -> [raise |-> TRUE,  ret |-> <<>>]

\* -------------------------------------------------------- construction
\* the default of max_queue_length
DefaultMaxQueueLength == 1024

\* faulty variant: an unknown policy is logged but kept
Construct_KeepsUnknown(options) ==
    LET asked == OptionGet(options, "policy", "default")
        known == asked \in {"default", "queue", "drop"}
    IN  [ per_meter_topic  |->
              IntOf(OptionGet(options, "per_meter_topic", "0")) # 0,
          policy           |-> asked,
          max_queue_length |->
              IF options.max_queue_length = <<>> THEN DefaultMaxQueueLength
              ELSE IntOf(Last(options.max_queue_length)),
          retry            |->
              IF asked \in {"queue", "drop"} THEN <<1>> ELSE <<>>,
          log              |->
              IF known
              THEN [t |-> "log", level |-> "info", msg |-> "policy set",
                    arg |-> asked]
              ELSE [t |-> "log", level |-> "warn", msg |-> "policy unknown",
                    arg |-> asked] ]

\* faulty variant: without a policy option the policy is queue
Construct_QueueByDefault(options) ==
    LET asked == OptionGet(options, "policy", "queue")
        known == asked \in {"default", "queue", "drop"}
        pol   == IF known THEN asked ELSE "default"
    IN  [ per_meter_topic  |->
              IntOf(OptionGet(options, "per_meter_topic", "0")) # 0,
          policy           |-> pol,
          max_queue_length |->
              IF options.max_queue_length = <<>> THEN DefaultMaxQueueLength
              ELSE IntOf(Last(options.max_queue_length)),
          retry            |-> IF pol \in {"queue", "drop"} THEN <<1>> ELSE <<>>,
          log              |->
              IF known
              THEN [t |-> "log", level |-> "info", msg |-> "policy set",
                    arg |-> asked]
              ELSE [t |-> "log", level |-> "warn", msg |-> "policy unknown",
                    arg |-> asked] ]

\* faulty variant: retry is unset only when the option asks for default
Construct_RetryUnlessDefault(options) ==
    LET asked == OptionGet(options, "policy", "default")
        known == asked \in {"default", "queue", "drop"}
        pol   == IF known THEN asked ELSE "default"
    IN  [ per_meter_topic  |->
              IntOf(OptionGet(options, "per_meter_topic", "0")) # 0,
          policy           |-> pol,
          max_queue_length |->
              IF options.max_queue_length = <<>> THEN DefaultMaxQueueLength
              ELSE IntOf(Last(options.max_queue_length)),
          retry            |-> IF asked # "default" THEN <<1>> ELSE <<>>,
          log              |->
              IF known
              THEN [t |-> "log", level |-> "info", msg |-> "policy set",
                    arg |-> asked]
              ELSE [t |-> "log", level |-> "warn", msg |-> "policy unknown",
                    arg |-> asked] ]

\* MessagingPublisher.__init__(): the attributes it sets and what it logs
Construct(options) ==
    LET asked == OptionGet(options, "policy", "default")
        known == asked \in {"default", "queue", "drop"}
        pol   == IF known THEN asked ELSE "default"
    IN  [ per_meter_topic  |->
              IntOf(OptionGet(options, "per_meter_topic", "0")) # 0,
          policy           |-> pol,
          max_queue_length |->
              IF options.max_queue_length = <<>> THEN DefaultMaxQueueLength
              ELSE IntOf(Last(options.max_queue_length)),
          retry            |-> IF pol \in {"queue", "drop"} THEN <<1>> ELSE <<>>,
          log              |->
              IF known
              THEN [t |-> "log", level |-> "info", msg |-> "policy set",
                    arg |-> asked]
              ELSE [t |-> "log", level |-> "warn", msg |-> "policy unknown",
                    arg |-> asked] ]

Init ==
    \E options \in UrlOptions :
        LET self == Construct(options) IN
        /\ url_options = options
        /\ per_meter_topic = self.per_meter_topic
        /\ policy = self.policy
        /\ max_queue_length = self.max_queue_length
        /\ retry = self.retry
        /\ local_queue = <<>>
        /\ queue = [p \in Procs |-> <<>>]
        /\ pc = [p \in Procs |-> "idle"]
        /\ op = [p \in Procs |-> "none"]
        /\ detached = [p \in Procs |-> <<>>]
        /\ nextId = 1
        /\ overlaps = 0
        /\ hist = <<self.log>>

\* RPCPublisher.__init__() and NotifierPublisher.__init__(): the retry the
\* transport client is created with, retry=self.retry; <<>> stands for None
TransportRetry == retry

\* --------------------------------------------------------------- steps
Sends(h) == {i \in 1..Len(h) : h[i].t = "send"}

RECURSIVE SumQueues(_)
SumQueues(ps) ==
    IF ps = {} THEN 0
    ELSE LET p == CHOOSE x \in ps : TRUE
         IN  Len(queue[p]) + SumQueues(ps \ {p})

\* _send() calls made so far plus those the running calls may still make
Budget(extra) == Cardinality(Sends(hist)) + SumQueues(Procs) + extra

\* the end of flush(): _process_queue() has returned `ret` (out = "returned")
\* or has raised (out names the exception), leaving `left` in flush()'s list
Complete(p, call, h, det, left, ret, live, out) ==
    LET merged == Reconcile(ret, live)
        final  == IF out = "returned"
                  THEN AfterFlush(ret, live, policy, max_queue_length)
                  ELSE live
        count  == IF out = "returned" /\ policy = "queue"
                  THEN DroppedCount(merged, max_queue_length) ELSE 0
        warn   == IF count > 0
                  THEN <<[t |-> "log", level |-> "warn", msg |-> "exceeded",
                          arg |-> count]>>
                  ELSE <<>>
        end    == IF det = <<>> THEN <<>>
                  ELSE <<[t |-> "end", p |-> p, op |-> call, out |-> out,
                          detached |-> Ids(det), left |-> Ids(left),
                          ret |-> Ids(ret), merged |-> Ids(merged),
                          final |-> Ids(final)]>>
    IN  /\ local_queue' = final
        /\ hist' = h \o warn \o end
        /\ pc' = [pc EXCEPT ![p] = "idle"]
        /\ queue' = [queue EXCEPT ![p] = <<>>]
        /\ op' = [op EXCEPT ![p] = "none"]
        /\ detached' = [detached EXCEPT ![p] = <<>>]

\* faulty variant: the list being processed stays in self.local_queue
StartFlush_KeepsLive(p, call, h, q) ==
    /\ IF \E o \in Procs : pc[o] = "send"
       THEN overlaps < MaxOverlaps /\ overlaps' = overlaps + 1
       ELSE overlaps' = overlaps
    /\ IF q = <<>>
       THEN Complete(p, call, h, <<>>, <<>>, <<>>, <<>>, "returned")
       ELSE /\ local_queue' = q
            /\ queue' = [queue EXCEPT ![p] = q]
            /\ pc' = [pc EXCEPT ![p] = "send"]
            /\ op' = [op EXCEPT ![p] = call]
            /\ detached' = [detached EXCEPT ![p] = q]
            /\ hist' = h

\* flush() up to its first _send(), or to its end when the queue is empty
StartFlush(p, call, h, q) ==
    /\ IF \E o \in Procs : pc[o] = "send"
       THEN overlaps < MaxOverlaps /\ overlaps' = overlaps + 1
       ELSE overlaps' = overlaps
    /\ IF q = <<>>
       THEN Complete(p, call, h, <<>>, <<>>, <<>>, <<>>, "returned")
       ELSE /\ local_queue' = <<>>
            /\ queue' = [queue EXCEPT ![p] = q]
            /\ pc' = [pc EXCEPT ![p] = "send"]
            /\ op' = [op EXCEPT ![p] = call]
            /\ detached' = [detached EXCEPT ![p] = q]
            /\ hist' = h

\* publish_samples(context, samples)
PublishSamples(p, context, samples) ==
    /\ pc[p] = "idle"
    /\ LET batches == NewBatches(context, samples, per_meter_topic, nextId)
           mid     == \E o \in Procs \ {p} : pc[o] = "send"
           call    == [t |-> "call", p |-> p, op |-> "publish",
                       context |-> context, samples |-> samples,
                       pending |-> Ids(local_queue), first |-> nextId,
                       n |-> Len(batches)]
           enq     == [i \in 1..Len(batches) |->
                          [t |-> "enq", p |-> p, b |-> batches[i],
                           mid |-> mid]]
       IN  /\ nextId + Len(batches) - 1 <= MaxBatches
           /\ Budget(Len(local_queue) + Len(batches)) <= MaxSends
           /\ nextId' = nextId + Len(batches)
           /\ StartFlush(p, "publish", Append(hist, call) \o enq,
                         Enqueue(local_queue, batches))
    /\ UNCHANGED config

\* flush(), called from outside publish_samples()
Flush(p) ==
    /\ pc[p] = "idle"
    /\ Budget(Len(local_queue)) <= MaxSends
    /\ LET call == [t |-> "call", p |-> p, op |-> "flush",
                    pending |-> Ids(local_queue)]
       IN  StartFlush(p, "flush",
                      IF local_queue = <<>> THEN hist ELSE Append(hist, call),
                      local_queue)
    /\ UNCHANGED << config, nextId >>

\* faulty variant: every tuple is sent with the context of the newest tuple of
\* the list, that of the call that runs the flush
SendEvent_NewestContext(p, r) ==
    [t |-> "send", p |-> p,
     b |-> [Head(queue[p]) EXCEPT !.context = Last(queue[p]).context],
     r |-> r]

\* _process_queue(): context, topic, meters = queue[0]; self._send(context,
\* topic, meters), with its outcome r
SendEvent(p, r) == [t |-> "send", p |-> p, b |-> Head(queue[p]), r |-> r]

\* _send() returns: the head is popped and the loop goes on
SendOk(p) ==
    /\ pc[p] = "send"
    /\ LET h    == Append(hist, SendEvent(p, "ok"))
           rest == PopHead(queue[p])
       IN  IF rest # <<>>
           THEN /\ queue' = [queue EXCEPT ![p] = rest]
                /\ hist' = h
                /\ UNCHANGED << local_queue, pc, op, detached >>
           ELSE Complete(p, op[p], h, detached[p], <<>>, <<>>, local_queue,
                         "returned")
    /\ UNCHANGED << config, nextId, overlaps >>

\* _send() raises oslo.messaging.MessageDeliveryFailure
SendFail(p) ==
    /\ pc[p] = "send"
    /\ LET f == OnDeliveryFailure(queue[p], policy)
           h == Append(hist, SendEvent(p, "fail"))
           w == IF policy \in {"queue", "drop"}
                THEN <<[t |-> "log", level |-> "warn",
                        msg |-> IF policy = "queue" THEN "queue them"
                                ELSE "dropping them",
                        arg |-> SumLen(queue[p])]>>
                ELSE <<>>
       IN  IF f.raise
           THEN Complete(p, op[p], h \o w, detached[p], queue[p], <<>>,
                         local_queue, "DeliveryFailure")
           ELSE Complete(p, op[p], h \o w, detached[p], queue[p], f.ret,
                         local_queue, "returned")
    /\ UNCHANGED << config, nextId, overlaps >>

\* _send() raises anything else
SendError(p) ==
    /\ pc[p] = "send"
    /\ Complete(p, op[p], Append(hist, SendEvent(p, "error")), detached[p],
                queue[p], <<>>, local_queue, "Error")
    /\ UNCHANGED << config, nextId, overlaps >>

\* the slot a new call takes
FreeSlot(p) == pc[p] = "idle" /\ \A o \in Procs : o < p => pc[o] # "idle"

Call(p) ==
    /\ FreeSlot(p)
    /\ \/ \E in \in InputsAt(per_meter_topic, nextId) :
              PublishSamples(p, in.context, in.samples)
       \/ Flush(p)

Transport(p) == SendOk(p) \/ SendFail(p) \/ SendError(p)

Next == \E p \in Procs : Call(p) \/ Transport(p)

\* calls may overlap: a call can start while another is inside _send()
Spec == Init /\ [][Next]_vars

Quiet == \A p \in Procs : pc[p] = "idle"

NextSeq == \E p \in Procs : (Quiet /\ Call(p)) \/ Transport(p)

\* every call runs to completion before the next starts
SpecSeq == Init /\ [][NextSeq]_vars

\* publish_samples() with any list of samples
PublishAny(p) ==
    \E c \in Contexts, s \in SampleLists : PublishSamples(p, c, s)

\* the first call publishes any list of samples, the later calls are those
\* of SpecSeq
NextBuild ==
    \E p \in Procs :
        \/ nextId = 1 /\ Quiet /\ FreeSlot(p) /\ PublishAny(p)
        \/ nextId > 1 /\ Quiet /\ Call(p)
        \/ Transport(p)

\* non-overlapping calls, the first with any sample list up to MaxSamples
SpecBuild == Init /\ [][NextBuild]_vars

\* a _send() call comes to an end: the transport returns or raises
SendEnds == \A p \in Procs : WF_vars(Transport(p))

\* overlapping calls, every _send() of which returns or raises in the end
SpecLive == Init /\ [][Next]_vars /\ SendEnds

\* ============================================================ properties
Range(f) == {f[i] : i \in DOMAIN f}

Ends == {i \in 1..Len(hist) : hist[i].t = "end"}
Enqs == {i \in 1..Len(hist) : hist[i].t = "enq"}
Oks == {i \in Sends(hist) : hist[i].r = "ok"}
Fails == {i \in Sends(hist) : hist[i].r = "fail"}
Errors == {i \in Sends(hist) : hist[i].r = "error"}

\* ends of a flush whose _send() raised MessageDeliveryFailure and whose
\* _process_queue() returned all the same (policy queue or drop)
FailedEnds == {e \in Ends : hist[e].out = "returned" /\ hist[e].left # <<>>}

\* the _send() call that ended the flush of end record e
LastSendOf(e) ==
    CHOOSE i \in Sends(hist) :
        i < e /\ \A j \in Sends(hist) : j < e => j <= i

\* the first _send() call after position e, 0 when there is none
NextSendAfter(e) ==
    IF \E j \in Sends(hist) : j > e
    THEN CHOOSE j \in Sends(hist) :
             j > e /\ \A k \in Sends(hist) : k > e => j <= k
    ELSE 0

\* the ids of the _send() calls that returned, in the order of the calls
RECURSIVE OkIds(_)
OkIds(h) ==
    IF h = <<>> THEN <<>>
    ELSE IF Head(h).t = "send" /\ Head(h).r = "ok"
         THEN <<Head(h).b.id>> \o OkIds(Tail(h))
         ELSE OkIds(Tail(h))

\* the tuples that are in self.local_queue or in the list of a running flush
PendingIds ==
    Range(Ids(local_queue)) \cup UNION {Range(Ids(queue[p])) : p \in Procs}

\* how many times id occurs in self.local_queue and the running flushes' lists
Occurrences(id) ==
    Cardinality({i \in 1..Len(local_queue) : local_queue[i].id = id})
    + Cardinality({<<p, i>> \in Procs \X (1..MaxBatches + 1) :
                      i <= Len(queue[p]) /\ queue[p][i].id = id})

\* s from its n-th element on
From(s, n) == SubSeq(s, n, Len(s))

\* ---------------------------------------------------------------- C1
\* C1: when calls do not overlap, the batches the Sender accepts are accepted
\* in enqueue order: of two batches that were both sent successfully, the one
\* appended earlier is sent earlier.
C1_OrderPreserved ==
    \A i, j \in Oks : hist[i].b.id < hist[j].b.id => i < j

\* two batches of different calls are delivered after a failed attempt
C1_Witness ==
    /\ Fails # {}
    /\ \E i, j \in Oks : i < j /\ hist[i].b.id < hist[j].b.id
                         /\ hist[i].b.context # hist[j].b.context

\* ---------------------------------------------------------------- C2
\* every _send() so far failed with MessageDeliveryFailure up to some point
\* and every later one returned
OutageThenRecovery ==
    /\ Errors = {}
    /\ \A i \in Oks, j \in Sends(hist) : i < j => j \in Oks

\* the batches enqueued before the last failed _send()
EnqueuedInOutage == {i \in Enqs : \E f \in Fails : i < f}

\* C2: policy queue, non-overlapping calls: if the batches enqueued during an
\* outage fit the bound (or the bound is 0) and a call has run after the
\* transport recovered, every batch ever enqueued has been delivered exactly
\* once, in enqueue order, and the queue is empty.
C2_NoLossBelowCapacity ==
    ( /\ policy = "queue"
      /\ Quiet
      /\ OutageThenRecovery
      /\ Oks # {}
      /\ \/ max_queue_length = 0
         \/ Cardinality(EnqueuedInOutage) <= max_queue_length )
    => /\ local_queue = <<>>
       /\ OkIds(hist) = [i \in 1..(nextId - 1) |-> i]

\* an outage of two failed attempts with the queue filled to its bound, then
\* a recovery that delivered everything
C2_Witness ==
    /\ policy = "queue"
    /\ Quiet
    /\ OutageThenRecovery
    /\ Cardinality(Fails) >= 2
    /\ Cardinality(EnqueuedInOutage) = max_queue_length
    /\ Cardinality(Oks) >= 2
    /\ local_queue = <<>>

\* ---------------------------------------------------------------- C3
\* C3: policy queue with max_queue_length = M > 0: the queue a flush leaves
\* when it returns holds at most M batches, and so does the queue in every
\* state.
C3_BoundedQueue ==
    (policy = "queue" /\ max_queue_length > 0)
    => /\ Len(local_queue) <= max_queue_length
       /\ \A e \in Ends : hist[e].out = "returned"
                          => Len(hist[e].final) <= max_queue_length

\* a flush that had to evict has returned
C3_Witness ==
    /\ policy = "queue"
    /\ max_queue_length > 0
    /\ \E e \in Ends :
          /\ hist[e].out = "returned"
          /\ Len(hist[e].merged) > max_queue_length
          /\ Len(hist[e].final) = max_queue_length
          /\ hist[e - 1].t = "log" /\ hist[e - 1].msg = "exceeded"

\* ---------------------------------------------------------------- C4
\* C4: policy drop: when the send of batch k fails, the flush leaves the
\* queue empty, neither k nor a batch behind it in the working set is pending
\* any more, and none of them is handed to the Sender afterwards.
C4_DropDiscardsFromFailure ==
    policy = "drop" =>
        \A e \in FailedEnds :
            /\ hist[e].left[1] = hist[LastSendOf(e)].b.id
            /\ hist[LastSendOf(e)].r = "fail"
            /\ hist[e].final = <<>>
            /\ Range(hist[e].left) \cap PendingIds = {}
            /\ \A j \in Sends(hist) :
                   j > e => hist[j].b.id \notin Range(hist[e].left)

\* a failure with a batch behind the failing one, and a later send
C4_Witness ==
    /\ policy = "drop"
    /\ \E e \in FailedEnds :
          /\ Len(hist[e].left) >= 2
          /\ NextSendAfter(e) # 0

\* ---------------------------------------------------------------- C5
\* the queue flush leaves after a failure under policy queue, before the
\* length check: the failing batch and the batches behind it
RetainedExactly(e) ==
    LET sent == Len(hist[e].detached) - Len(hist[e].left) IN
    /\ hist[LastSendOf(e)].r = "fail"
    /\ hist[e].left[1] = hist[LastSendOf(e)].b.id
    /\ hist[e].left = From(hist[e].detached, sent + 1)
    /\ \A i \in 1..sent : hist[e].detached[i] \in Range(OkIds(hist))
    /\ hist[e].merged = hist[e].left

\* the batch the length check leaves at the head of the reconciled queue
OldestSurvivor(e) ==
    LET n == Len(hist[e].merged)
        m == max_queue_length
    IN  IF m > 0 /\ n > m THEN hist[e].merged[n - m + 1]
        ELSE hist[e].merged[1]

\* C5 as stated: after a failure of batch k under policy queue, the
\* reconciled queue is k and the batches behind it, and k is the first batch
\* the next flush attempts.
C5_AsStated ==
    policy = "queue" =>
        \A e \in FailedEnds :
            /\ RetainedExactly(e)
            /\ NextSendAfter(e) # 0 =>
                   hist[NextSendAfter(e)].b.id = hist[e].left[1]

\* C5, amended: when calls do not overlap, after a failure of batch k under
\* policy queue the reconciled queue, before the length check, is k followed
\* by the batches behind it in order; the first batch the next flush attempts
\* is the head of the queue the length check leaves, which is k unless the
\* check evicted it.
C5_RetainedFromFailure ==
    policy = "queue" =>
        \A e \in FailedEnds :
            /\ RetainedExactly(e)
            /\ NextSendAfter(e) # 0 =>
                   hist[NextSendAfter(e)].b.id = OldestSurvivor(e)

\* a flush that sent one batch, failed on the next, and was followed by
\* another flush
C5_Witness ==
    /\ policy = "queue"
    /\ \E e \in FailedEnds :
          /\ Len(hist[e].detached) > Len(hist[e].left)
          /\ NextSendAfter(e) # 0

\* ---------------------------------------------------------------- C6
\* s is the beginning of t
IsPrefix(s, t) == Len(s) <= Len(t) /\ \A i \in 1..Len(s) : s[i] = t[i]

\* C6: policy default: once MessageDeliveryFailure has propagated, the
\* failing batch and the unsent batches behind it are still in the pending
\* queue, in order.
C6_QueueKeptOnRaise ==
    policy = "default" =>
        \A e \in Ends :
            hist[e].out = "DeliveryFailure"
            => IsPrefix(hist[e].left, hist[e].final)

\* ---------------------------------------------------------------- C7
\* C7: policy default: a MessageDeliveryFailure raised by _send() ends the
\* flush, and the publish_samples() call that ran it, with that exception.
C7_DefaultPropagates ==
    policy = "default" =>
        \A i \in Fails :
            /\ i < Len(hist)
            /\ hist[i + 1].t = "end"
            /\ hist[i + 1].p = hist[i].p
            /\ hist[i + 1].out = "DeliveryFailure"

\* a publish_samples() call that ended with MessageDeliveryFailure
C7_Witness ==
    /\ policy = "default"
    /\ \E e \in Ends : hist[e].op = "publish"
                       /\ hist[e].out = "DeliveryFailure"
                       /\ hist[e - 1].r = "fail"

\* ---------------------------------------------------------------- C8
\* C8: when _send() raises anything but MessageDeliveryFailure, the unsent
\* batches of the flush are still in the pending queue afterwards.
C8_QueueKeptOnError ==
    \A e \in Ends :
        hist[e].out = "Error" => IsPrefix(hist[e].left, hist[e].final)

\* ---------------------------------------------------------------- C9
\* C9: policy queue or drop: no call ends with MessageDeliveryFailure; the
\* flush in which a send fails returns.
C9_NeverRaisesDeliveryFailure ==
    policy \in {"queue", "drop"} =>
        /\ \A e \in Ends : hist[e].out # "DeliveryFailure"
        /\ \A i \in Fails :
               \E e \in Ends : /\ e > i
                               /\ NextSendAfter(i) \in {0} \cup (e..Len(hist))
                               /\ hist[e].p = hist[i].p
                               /\ hist[e].out = "returned"

\* a publish_samples() call whose send failed has returned
C9_Witness ==
    /\ policy \in {"queue", "drop"}
    /\ \E e \in FailedEnds : hist[e].op = "publish"
                             /\ hist[LastSendOf(e)].r = "fail"

\* --------------------------------------------------------------- C10
\* the batches enqueued while the flush of another call was in progress
MidFlushIds == {hist[i].b.id : i \in {j \in Enqs : hist[j].mid}}

\* batch id left the queue with a diagnostic: discarded by policy drop,
\* evicted by the length check, or lost by a flush that raised
Discarded(id) ==
    \E e \in Ends :
        /\ id \in Range(hist[e].left) \cup Range(hist[e].merged)
        /\ id \notin Range(hist[e].final)
        /\ \/ hist[e].out # "returned"
           \/ /\ hist[e - 1].t = "log"
              /\ \/ policy = "drop" /\ hist[e - 1].msg = "dropping them"
                 \/ policy = "queue" /\ hist[e - 1].msg = "exceeded"

\* C10: a batch published while a flush is in progress is sent successfully
\* at most once and is never removed silently: at any time it is pending
\* (once), or was sent successfully, or left the queue through a policy
\* discard, an eviction or an exception of the flush that held it.
C10_MidFlushNeitherLostNorTwice ==
    \A id \in MidFlushIds :
        /\ Cardinality({i \in Oks : hist[i].b.id = id}) <= 1
        /\ Occurrences(id) <= 1
        /\ (\E i \in Oks : hist[i].b.id = id) => id \notin PendingIds
        /\ \/ id \in PendingIds
           \/ \E i \in Oks : hist[i].b.id = id
           \/ Discarded(id)

\* a batch published during a flush, retained after its own failed send,
\* is still in the queue after the flush that was in progress has ended
C10_Witness ==
    /\ Quiet
    /\ \E id \in MidFlushIds :
          /\ id \in Range(Ids(local_queue))
          /\ \E e \in Ends : id \notin Range(hist[e].detached)
                             /\ \E i \in Enqs : i < e /\ hist[i].b.id = id

\* --------------------------------------------------------------- C11
\* C11: while a flush is inside _send(), the Sender is not handed a batch that
\* was published after that flush began as long as the flush has batches of
\* its working set that it has not attempted yet.
C11_MidFlushBehindInFlight ==
    \A p, o \in Procs :
        ( /\ p # o
          /\ pc[p] = "send"
          /\ pc[o] = "send"
          /\ queue[o][1].id \in MidFlushIds
          /\ \A i \in 1..Len(detached[p]) :
                 detached[p][i].id < queue[o][1].id )
        => Len(queue[p]) = 1

\* --------------------------------------------------------------- C12
EnqueuedIds == {hist[i].b.id : i \in Enqs}

\* batch id left the queue at the end of a flush whose _send() raised
\* MessageDeliveryFailure
DiscardedOnFailure(id) ==
    \E e \in Ends :
        /\ hist[LastSendOf(e)].r = "fail"
        /\ id \in Range(hist[e].left)
        /\ id \notin Range(hist[e].final)

\* batch id was evicted by the length check of policy queue
Evicted(id) ==
    \E e \in Ends :
        /\ policy = "queue"
        /\ hist[e].out = "returned"
        /\ id \in Range(hist[e].merged)
        /\ id \notin Range(hist[e].final)

\* C12: a batch that is no longer pending was sent successfully, or was
\* discarded after a MessageDeliveryFailure, or was evicted by the length
\* check of policy queue.
C12_RemovedOnlyBySendOrPolicy ==
    \A id \in EnqueuedIds \ PendingIds :
        \/ \E i \in Oks : hist[i].b.id = id
        \/ DiscardedOnFailure(id)
        \/ Evicted(id)

\* --------------------------------------------------------------- C13
\* C13: a batch whose send succeeded is in no list afterwards and is not
\* handed to the Sender again.
C13_AtMostOneSuccessfulSend ==
    \A i \in Oks :
        /\ hist[i].b.id \notin PendingIds
        /\ \A j \in Sends(hist) : j > i => hist[j].b.id # hist[i].b.id

\* a batch was sent, the next batch of the same flush was attempted, and a
\* later flush has sent again
C13_Witness ==
    \E i \in Oks, e \in Ends :
        /\ i < e
        /\ \E j \in Sends(hist) : i < j /\ j < e /\ hist[j].p = hist[i].p
        /\ NextSendAfter(e) # 0

\* --------------------------------------------------------------- C14
\* ends of a flush whose length check had more than the bound to look at
OverBound ==
    {e \in Ends : /\ policy = "queue"
                  /\ hist[e].out = "returned"
                  /\ max_queue_length > 0
                  /\ Len(hist[e].merged) > max_queue_length}

\* C14: when the length check evicts, the queue it leaves is the last
\* max_queue_length batches of the queue it found, in the same order, and the
\* count it logs is the number of batches it removed; it logs nothing
\* otherwise.
C14_EvictsOldestExcess ==
    /\ \A e \in OverBound :
          LET n == Len(hist[e].merged) IN
          /\ Len(hist[e].final) = max_queue_length
          /\ hist[e].final =
                 From(hist[e].merged, n - max_queue_length + 1)
          /\ hist[e - 1].t = "log"
          /\ hist[e - 1].msg = "exceeded"
          /\ hist[e - 1].arg = n - max_queue_length
          /\ hist[e - 1].arg = n - Len(hist[e].final)
    /\ \A i \in 1..Len(hist) :
          (hist[i].t = "log" /\ hist[i].msg = "exceeded")
          => (i + 1) \in OverBound

\* an eviction of one batch out of three
C14_Witness ==
    \E e \in OverBound : Len(hist[e].merged) = 3 /\ Len(hist[e].final) = 2

\* --------------------------------------------------------------- C15
Publishes == {i \in 1..Len(hist) : hist[i].t = "call" /\ hist[i].op = "publish"}

\* the k-th tuple appended by the publish_samples() call of record i
Appended(i, k) == hist[i + k].b

Serialized(samples) ==
    [j \in 1..Len(samples) |-> meter_message_from_counter(samples[j])]

CategoriesOf(samples) == {samples[j].counter_name : j \in 1..Len(samples)}

\* C15: with fan-out, publish_samples() appends the batch for the base topic
\* with all samples in order, then exactly one batch per category present,
\* addressed base "." category and holding exactly the samples of that
\* category.
C15_FanOutBatches ==
    per_meter_topic =>
        \A i \in Publishes :
            LET all  == Serialized(hist[i].samples)
                cats == CategoriesOf(hist[i].samples)
            IN  /\ hist[i].n = 1 + Cardinality(cats)
                /\ \A k \in 1..hist[i].n :
                       /\ hist[i + k].t = "enq"
                       /\ Appended(i, k).id = hist[i].first + k - 1
                /\ Appended(i, 1).topic = metering_topic
                /\ Appended(i, 1).meters = all
                /\ \A c \in cats :
                       \E k \in 2..hist[i].n :
                           /\ Appended(i, k).topic = metering_topic \o "." \o c
                           /\ Range(Appended(i, k).meters) =
                                  {m \in Range(all) : m.counter_name = c}
                           /\ Len(Appended(i, k).meters) =
                                  Cardinality({m \in Range(all) :
                                                   m.counter_name = c})
                           /\ \A l \in 2..hist[i].n :
                                  Appended(i, l).topic = Appended(i, k).topic
                                  => l = k

\* samples of categories A, A, B give the batches D (3 samples), D.A (2) and
\* D.B (1)
C15_Witness ==
    /\ per_meter_topic
    /\ \E i \in Publishes :
          /\ Len(hist[i].samples) = 3
          /\ hist[i].samples[1].counter_name = "A"
          /\ hist[i].samples[2].counter_name = "A"
          /\ hist[i].samples[3].counter_name = "B"
          /\ hist[i].n = 3
          /\ Appended(i, 1).topic = "metering"
          /\ Len(Appended(i, 1).meters) = 3
          /\ Appended(i, 2).topic = "metering.A"
          /\ Len(Appended(i, 2).meters) = 2
          /\ Appended(i, 3).topic = "metering.B"
          /\ Len(Appended(i, 3).meters) = 1

\* --------------------------------------------------------------- C16
RECURSIVE OfCategory(_, _)
\* the meters of category c, in the order of the list
OfCategory(meters, c) ==
    IF meters = <<>> THEN <<>>
    ELSE IF Head(meters).counter_name = c
         THEN <<Head(meters)>> \o OfCategory(Tail(meters), c)
         ELSE OfCategory(Tail(meters), c)

\* C16: every per-category batch holds the samples of its category in their
\* original relative order, and a category has one batch even when its
\* samples are not adjacent in the input.
C16_CategoryOrderAndSingleBatch ==
    per_meter_topic =>
        \A i \in Publishes :
            \A k \in 2..hist[i].n :
                /\ \E c \in CategoriesOf(hist[i].samples) :
                       /\ Appended(i, k).topic = metering_topic \o "." \o c
                       /\ Appended(i, k).meters =
                              OfCategory(Serialized(hist[i].samples), c)
                /\ \A l \in 2..hist[i].n :
                       l # k => Appended(i, l).topic # Appended(i, k).topic

\* samples of categories A, B, A: the two A samples are in one batch, in order
C16_Witness ==
    /\ per_meter_topic
    /\ \E i \in Publishes :
          /\ Len(hist[i].samples) = 3
          /\ hist[i].samples[1].counter_name = "A"
          /\ hist[i].samples[2].counter_name = "B"
          /\ hist[i].samples[3].counter_name = "A"
          /\ hist[i].n = 3
          /\ Appended(i, 2).meters[1].counter_volume = 1
          /\ Appended(i, 2).meters[2].counter_volume = 3

\* --------------------------------------------------------------- C17
\* C17: without fan-out every publish_samples() appends one batch, for the
\* base topic, with all samples in order, and no batch for another topic is
\* ever appended or sent.
C17_NoFanOutSingleBatch ==
    ~per_meter_topic =>
        /\ \A i \in Publishes :
               /\ hist[i].n = 1
               /\ hist[i + 1].t = "enq"
               /\ Appended(i, 1).topic = metering_topic
               /\ Appended(i, 1).meters = Serialized(hist[i].samples)
               /\ (i < Len(hist) - 1) => hist[i + 2].t # "enq"
        /\ \A i \in Enqs \cup Sends(hist) : hist[i].b.topic = metering_topic

\* a publish of samples of two categories, sent, without fan-out
C17_Witness ==
    /\ ~per_meter_topic
    /\ \E i \in Publishes :
          /\ Cardinality(CategoriesOf(hist[i].samples)) = 2
          /\ \E j \in Oks : hist[j].b.id = hist[i].first

\* --------------------------------------------------------------- C18
\* the publisher was constructed with a policy outside default, queue, drop
UnknownPolicyAsked == hist[1].t = "log" /\ hist[1].msg = "policy unknown"

\* C18: a publisher constructed with an unknown policy has logged one
\* warning, has effective policy default (and the retry of default), and
\* behaves as policy default does: a MessageDeliveryFailure ends the call with
\* that exception, nothing is retained, discarded with a log or evicted.
C18_UnknownPolicyIsDefault ==
    UnknownPolicyAsked =>
        /\ hist[1].level = "warn"
        /\ policy = "default"
        /\ retry = <<>>
        /\ \A i \in 2..Len(hist) : hist[i].t # "log"
        /\ \A i \in Fails :
               /\ hist[i + 1].t = "end"
               /\ hist[i + 1].out = "DeliveryFailure"
        /\ \A e \in Ends : hist[e].ret = <<>>

\* a publisher constructed with an unknown policy has raised
\* MessageDeliveryFailure from publish_samples()
C18_Witness ==
    /\ UnknownPolicyAsked
    /\ \E e \in Ends : hist[e].op = "publish"
                       /\ hist[e].out = "DeliveryFailure"

\* --------------------------------------------------------------- C19
Calls == {i \in 1..Len(hist) : hist[i].t = "call"}

\* the list flush() is to detach in the call of record i
ToDetach(i) ==
    IF hist[i].op = "publish"
    THEN hist[i].pending
         \o [k \in 1..hist[i].n |-> hist[i].first + k - 1]
    ELSE hist[i].pending

\* the records of the call of record i: those up to the next call
SpanOf(i) == {j \in (i + 1)..Len(hist) : \A c \in Calls : c > i => j < c}

SendsOf(i) == SpanOf(i) \cap Sends(hist)

\* C19: with calls that do not overlap, a call detaches what was pending
\* followed by the batches it appended, attempts them in that order, and ends
\* its one flush once; no _send() happens outside a call.
C19_PublishAppendsThenOneFlush ==
    /\ \A i \in Calls :
          /\ \A j \in SendsOf(i) :
                 LET r == Cardinality({k \in SendsOf(i) : k <= j})
                 IN  /\ r <= Len(ToDetach(i))
                     /\ hist[j].b.id = ToDetach(i)[r]
                     /\ hist[j].p = hist[i].p
          /\ Cardinality(SpanOf(i) \cap Ends) <= 1
          /\ \A e \in SpanOf(i) \cap Ends :
                 /\ hist[e].detached = ToDetach(i)
                 /\ hist[e].op = hist[i].op
                 /\ \A j \in SendsOf(i) : j < e
          /\ (Quiet \/ \E c \in Calls : c > i)
                 => Cardinality(SpanOf(i) \cap Ends) = 1
    /\ \A j \in Sends(hist) : \E i \in Calls : j \in SendsOf(i)

\* a publish with a batch retained from an earlier failure has sent the
\* retained batch and then its own
C19_Witness ==
    \E i \in Publishes :
        /\ hist[i].pending # <<>>
        /\ \E j, k \in SendsOf(i) :
              /\ j < k
              /\ hist[j].b.id = hist[i].pending[1]
              /\ hist[k].b.id = hist[i].first

\* --------------------------------------------------------------- C20
\* the largest id of a batch sent successfully, 0 when there is none
LastOkId ==
    IF Oks = {} THEN 0
    ELSE CHOOSE n \in {hist[i].b.id : i \in Oks} :
             \A i \in Oks : hist[i].b.id <= n

\* C20: policy queue with max_queue_length = 0: nothing is ever evicted, and
\* with calls that do not overlap and no exception other than
\* MessageDeliveryFailure the queue between calls holds every batch enqueued
\* and not yet sent, in enqueue order.
C20_UnboundedQueue ==
    (policy = "queue" /\ max_queue_length = 0) =>
        /\ \A i \in 1..Len(hist) :
               hist[i].t = "log" => hist[i].msg # "exceeded"
        /\ \A e \in Ends :
               hist[e].out = "returned" => hist[e].final = hist[e].merged
        /\ (Quiet /\ Errors = {}) =>
               Ids(local_queue) =
                   [k \in 1..(nextId - 1 - LastOkId) |-> LastOkId + k]

\* three batches enqueued during an outage are all in the queue
C20_Witness ==
    /\ policy = "queue"
    /\ max_queue_length = 0
    /\ Quiet
    /\ Oks = {}
    /\ Errors = {}
    /\ Cardinality(Fails) >= 2
    /\ Len(local_queue) = 3

\* --------------------------------------------------------------- C21
\* the tuple the publish_samples() call of record i is to build as its k-th
AsCreated(i, k, b) ==
    LET all == Serialized(hist[i].samples) IN
    /\ b.id = hist[i].first + k - 1
    /\ b.context = hist[i].context
    /\ IF k = 1
       THEN b.topic = metering_topic /\ b.meters = all
       ELSE \E c \in CategoriesOf(hist[i].samples) :
                /\ b.topic = metering_topic \o "." \o c
                /\ b.meters = OfCategory(all, c)

\* C21: whenever _send() is called, on a first attempt or on a retry in a
\* later call, it is given the context, topic and meters (same records, same
\* order) the batch was created with by its publish_samples() call.
C21_BatchUnchangedUntilSent ==
    \A j \in Sends(hist) :
        \E i \in Publishes :
            \E k \in 1..hist[i].n :
                /\ i + k < j
                /\ hist[i + k].t = "enq"
                /\ hist[i + k].b = hist[j].b
                /\ AsCreated(i, k, hist[j].b)

\* a batch of two samples whose send failed is sent again by a later
\* publish_samples() call made with another context
C21_Witness ==
    \E j \in Sends(hist), c \in Publishes :
        /\ c < j
        /\ hist[j].b.id \in Range(hist[c].pending)
        /\ hist[c].context # hist[j].b.context
        /\ hist[j].p = hist[c].p
        /\ Len(hist[j].b.meters) = 2
        /\ \E f \in Fails : f < c /\ hist[f].b.id = hist[j].b.id

\* --------------------------------------------------------------- C22
\* flush(), called in slot p, calls _send(), or leaves something in the queue
\* or in the log
FlushActs(p) ==
    Flush(p) /\ (pc'[p] = "send" \/ local_queue' # <<>> \/ hist' # hist)

\* the last thing that happened is the end of a flush whose sends all returned
AllSentAtLastEnd ==
    /\ Last(hist).t = "end"
    /\ Last(hist).out = "returned"
    /\ Last(hist).left = <<>>

\* C22: a flush() called while the queue is empty calls _send() for nothing
\* and leaves the queue empty; so does, with calls that do not overlap, a
\* flush() called right after a flush whose sends all succeeded.
C22_FlushOnDrainedQueue ==
    /\ local_queue = <<>> => \A p \in Procs : ~ENABLED FlushActs(p)
    /\ (Quiet /\ AllSentAtLastEnd) => \A p \in Procs : ~ENABLED FlushActs(p)

\* a flush that sent two batches has ended and flush() can be called again
C22_Witness ==
    /\ Quiet
    /\ AllSentAtLastEnd
    /\ Len(Last(hist).detached) = 2
    /\ local_queue = <<>>
    /\ ENABLED Flush(1)

\* --------------------------------------------------------------- C23
\* a publisher URL without a query string
NoOptions ==
    [per_meter_topic |-> <<>>, policy |-> <<>>, max_queue_length |-> <<>>]

\* C23: a publisher constructed without options has fan-out off, policy
\* default (set, not forced) and max_queue_length 1024, and its queue is empty
\* when the constructor returns.
C23_DefaultsWithoutOptions ==
    url_options = NoOptions =>
        /\ per_meter_topic = FALSE
        /\ policy = "default"
        /\ max_queue_length = 1024
        /\ hist[1] = [t |-> "log", level |-> "info", msg |-> "policy set",
                      arg |-> "default"]
        /\ Len(hist) = 1 => local_queue = <<>>

\* the publisher has just been constructed without options
C23_Witness ==
    /\ url_options = NoOptions
    /\ Len(hist) = 1
    /\ nextId = 1
    /\ Quiet

\* --------------------------------------------------------------- C24
\* batch ids in the order in which the batches were enqueued
Ascending(ids) == \A i, j \in 1..Len(ids) : i < j => ids[i] < ids[j]

\* C24: policy queue, calls that overlap: the queue a flush leaves is what it
\* retained followed by the batches that arrived while it ran, whichever of
\* the overlapping calls ends first, and the queue never holds a batch ahead
\* of one enqueued before it.
C24_ReconcileKeepsArrivalOrder ==
    policy = "queue" =>
        /\ Ascending(Ids(local_queue))
        /\ \A e \in Ends :
               hist[e].out = "returned" =>
                   /\ IsPrefix(hist[e].ret, hist[e].merged)
                   /\ Ascending(hist[e].merged)

\* --------------------------------------------------------------- C25
RECURSIVE FlushSendsFrom(_, _)
\* the _send() calls of slot p from position j of the log back to the call
\* record of the flush that slot p runs, or ran, there
FlushSendsFrom(p, j) ==
    IF j = 0 THEN {}
    ELSE IF hist[j].t = "call" /\ hist[j].p = p THEN {}
    ELSE (IF hist[j].t = "send" /\ hist[j].p = p THEN {j} ELSE {})
         \cup FlushSendsFrom(p, j - 1)

\* the _send() calls of the flush of slot p that is running, or has ended,
\* at position e of the log
FlushSends(p, e) == FlushSendsFrom(p, e - 1)

\* the _send() calls S of one flush take the batches of the working set det
\* from its head, one after the other, each once, and none after a failure
FromHeadUntilFailure(S, det) ==
    /\ \A j \in S :
           LET r == Cardinality({k \in S : k <= j})
           IN  r <= Len(det) /\ hist[j].b.id = det[r]
    /\ \A j, k \in S : hist[j].b.id = hist[k].b.id => j = k
    /\ \A j \in S : hist[j].r # "ok" => \A k \in S : k <= j

\* C25: within one flush the sends go through the working set from its head
\* and stop at the first failure: no batch is attempted twice or out of turn,
\* none behind the failing batch is attempted, and what is left is the
\* working set from the first batch that was not sent.  A flush that has
\* ended is looked at in the state it ends in: the log only grows.
C25_SendsFromHeadStopAtFailure ==
    /\ \A e \in Ends \cap {Len(hist)} :
           LET S == FlushSends(hist[e].p, e) IN
           /\ FromHeadUntilFailure(S, hist[e].detached)
           /\ hist[e].left =
                  From(hist[e].detached, Cardinality(S \cap Oks) + 1)
    /\ \A p \in Procs :
           pc[p] = "send" =>
               LET S == FlushSends(p, Len(hist) + 1) IN
               /\ FromHeadUntilFailure(S, Ids(detached[p]))
               /\ S \subseteq Oks
               /\ queue[p] = From(detached[p], Cardinality(S) + 1)

\* a flush of three batches sent the first, failed on the second and ended
\* without attempting the third
C25_Witness ==
    \E e \in Ends :
        /\ Len(hist[e].detached) = 3
        /\ Len(hist[e].left) = 2
        /\ Cardinality(FlushSends(hist[e].p, e)) = 2
        /\ hist[e - 1].t = "log"
        /\ hist[LastSendOf(e)].r = "fail"

\* --------------------------------------------------------------- C26
\* C26: policy drop or default, calls that do not overlap: whenever no call is
\* running the queue is empty, and every flush, whether it returned or raised
\* MessageDeliveryFailure, ended with an empty queue; under policy queue
\* alone a batch whose send failed is still pending afterwards.
C26_OnlyQueueRetains ==
    /\ policy \in {"drop", "default"} =>
           /\ Quiet => local_queue = <<>>
           /\ \A e \in Ends :
                  hist[e].out \in {"returned", "DeliveryFailure"}
                  => hist[e].final = <<>>
    /\ \A f \in Fails :
           hist[f].b.id \in PendingIds => policy = "queue"

\* under policy default a publish_samples() call with a batch behind the
\* failing one has raised MessageDeliveryFailure and the queue is empty
C26_Witness ==
    /\ policy = "default"
    /\ Quiet
    /\ local_queue = <<>>
    /\ \E e \in Ends :
          /\ hist[e].out = "DeliveryFailure"
          /\ hist[e].op = "publish"
          /\ Len(hist[e].left) >= 2
          /\ e = Len(hist)

\* --------------------------------------------------------------- C27
\* a flush has made no more _send() calls than its working set had batches:
\* a running flush has its working set less the batches sent still to go, the
\* one it is sending included; a flush that has ended is looked at in the
\* state it ends in
BoundedSends ==
    /\ \A e \in Ends \cap {Len(hist)} :
           Cardinality(FlushSends(hist[e].p, e)) <= Len(hist[e].detached)
    /\ \A p \in Procs :
           pc[p] = "send" =>
               /\ queue[p] # <<>>
               /\ Cardinality(FlushSends(p, Len(hist) + 1)) + Len(queue[p])
                      = Len(detached[p])

\* C27: provided every _send() call returns or raises, every flush, and the
\* publish_samples() call that runs it, comes to an end (no slot stays inside
\* _send() for ever: it is idle again and again), having called _send() at
\* most once per batch of the queue it started with.
C27_FlushTerminatesBounded ==
    /\ []BoundedSends
    /\ \A p \in Procs : []<>(pc[p] = "idle")

\* a flush of three batches has ended after three _send() calls
C27_Witness ==
    \E e \in Ends :
        /\ Len(hist[e].detached) = 3
        /\ Cardinality(FlushSends(hist[e].p, e)) = 3
        /\ hist[e].left = <<>>

\* --------------------------------------------------------------- C28
Min(a, b) == IF a <= b THEN a ELSE b

\* no _send() call has returned since the first one failed
Outage == Errors = {} /\ \A i \in Oks, f \in Fails : i < f

\* the number of batches enqueued since the last successful send
EnqueuedSinceOk == nextId - 1 - LastOkId

\* C28: policy queue with max_queue_length = M > 0, calls that do not
\* overlap, every send failing since the outage began: when no call is
\* running the queue is the min(T, M) batches enqueued last, in enqueue order,
\* T being the number of batches enqueued since the outage began; M counts
\* batches, whatever the number of samples in them.
C28_OutageKeepsNewest ==
    (policy = "queue" /\ max_queue_length > 0 /\ Quiet /\ Outage) =>
        LET T == EnqueuedSinceOk
            n == Min(T, max_queue_length)
        IN  Ids(local_queue) = [k \in 1..n |-> nextId - 1 - n + k]

\* more batches than the bound enqueued during an outage: the queue is at its
\* bound and holds more samples than the bound
C28_Witness ==
    /\ policy = "queue"
    /\ max_queue_length > 0
    /\ Quiet
    /\ Outage
    /\ Oks = {}
    /\ nextId - 1 > max_queue_length
    /\ Len(local_queue) = max_queue_length
    /\ SumLen(local_queue) > max_queue_length

\* --------------------------------------------------------------- C29
\* the _send() calls that were given batch id
SendsOfId(id) == {j \in Sends(hist) : hist[j].b.id = id}

\* C29: policy drop with fan-out: when the batch for the base topic of a
\* publish_samples() call was sent and the send of one of its per-category
\* batches failed, the base batch was sent once and successfully, the
\* failing batch was attempted once, and neither it nor a later batch of the
\* call is pending or is ever sent.
C29_FanOutHandledPerBatch ==
    (policy = "drop" /\ per_meter_topic) =>
        \A i \in Publishes :
            \A k \in 2..hist[i].n :
                LET base == hist[i].first
                    id   == base + k - 1
                IN  ( /\ SendsOfId(base) \cap Oks # {}
                      /\ SendsOfId(id) \cap Fails # {} )
                    => /\ Cardinality(SendsOfId(base)) = 1
                       /\ Cardinality(SendsOfId(id)) = 1
                       /\ \A j \in SendsOfId(base) :
                              hist[j].b.topic = metering_topic
                       /\ \A l \in k..hist[i].n :
                              /\ (base + l - 1) \notin PendingIds
                              /\ SendsOfId(base + l - 1) \cap Oks = {}
                              /\ l > k => SendsOfId(base + l - 1) = {}

\* samples of two categories: the base batch was sent, the batch of the first
\* category failed, the batch of the second was never attempted, and the
\* call has returned
C29_Witness ==
    /\ policy = "drop"
    /\ per_meter_topic
    /\ Quiet
    /\ \E i \in Publishes :
          /\ hist[i].n = 3
          /\ SendsOfId(hist[i].first) \cap Oks # {}
          /\ SendsOfId(hist[i].first + 1) \cap Fails # {}
          /\ SendsOfId(hist[i].first + 2) = {}
          /\ local_queue = <<>>

\* --------------------------------------------------------------- C30
\* the place in ascending order of the counter name a per-meter topic ends in
TopicRank(topic) ==
    CHOOSE r \in 1..Len(Names) : topic = metering_topic \o "." \o Names[r]

\* C30: with fan-out the batches of one publish_samples() call are the batch
\* for the base topic, then the per-category batches in ascending order of
\* the category name, wherever the categories come first in the samples; two
\* calls with the same samples append the same topics and meters.
C30_CategoriesAscending ==
    per_meter_topic =>
        \A i \in Publishes :
            /\ Appended(i, 1).topic = metering_topic
            /\ \A k \in 2..hist[i].n :
                   \E r \in 1..Len(Names) :
                       Appended(i, k).topic = metering_topic \o "." \o Names[r]
            /\ \A k, l \in 2..hist[i].n :
                   k < l => TopicRank(Appended(i, k).topic)
                                < TopicRank(Appended(i, l).topic)
            /\ \A j \in Publishes :
                   hist[j].samples = hist[i].samples =>
                       /\ hist[j].n = hist[i].n
                       /\ \A k \in 1..hist[i].n :
                              /\ Appended(j, k).topic = Appended(i, k).topic
                              /\ Appended(j, k).meters = Appended(i, k).meters

\* samples of categories B, A, B: the batch of A is enqueued before that of B
C30_Witness ==
    /\ per_meter_topic
    /\ \E i \in Publishes :
          /\ Len(hist[i].samples) = 3
          /\ hist[i].samples[1].counter_name = "B"
          /\ hist[i].samples[2].counter_name = "A"
          /\ hist[i].samples[3].counter_name = "B"
          /\ Appended(i, 1).topic = "metering"
          /\ Appended(i, 2).topic = "metering.A"
          /\ Appended(i, 3).topic = "metering.B"

\* --------------------------------------------------------------- C31
\* the publish_samples() calls that were given no samples
EmptyPublishes == {i \in Publishes : hist[i].samples = <<>>}

\* the call of record i appended one batch, for the base topic, without
\* meters, and the flush it ran has that batch last in its working set
OneEmptyBatch(i) ==
    /\ hist[i].n = 1
    /\ hist[i + 1].t = "enq"
    /\ Appended(i, 1).id = hist[i].first
    /\ Appended(i, 1).topic = metering_topic
    /\ Appended(i, 1).meters = <<>>
    /\ Appended(i, 1).context = hist[i].context
    /\ i + 2 <= Len(hist) => hist[i + 2].t # "enq"
    /\ \A e \in SpanOf(i) \cap Ends :
           hist[e].detached = Append(hist[i].pending, hist[i].first)

\* the flush of the call of record i gave its new batch to _send()
AttemptedInOwnFlush(i) ==
    \E j \in SendsOf(i) : hist[j].b.id = hist[i].first

\* every batch that was pending when the call of record i began was sent
\* successfully by the flush of that call
PendingAllSent(i) ==
    \A id \in Range(hist[i].pending) :
        \E j \in SendsOf(i) \cap Oks : hist[j].b.id = id

\* C31 as stated: a publish_samples() call without samples appends one batch
\* for the base topic with no meters, with or without fan-out, and the flush
\* that follows gives that batch to _send().
C31_AsStated ==
    \A i \in EmptyPublishes :
        /\ OneEmptyBatch(i)
        /\ (SpanOf(i) \cap Ends # {}) => AttemptedInOwnFlush(i)

\* C31, amended: a publish_samples() call without samples appends one batch
\* for the base topic with no meters, with or without fan-out; the flush that
\* follows has it last in its working set and gives it to _send() exactly
\* when every batch pending ahead of it was sent, at once when none was
\* pending.
C31_EmptyBatchTakesItsTurn ==
    \A i \in EmptyPublishes :
        /\ OneEmptyBatch(i)
        /\ (SpanOf(i) \cap Ends # {}) =>
               (AttemptedInOwnFlush(i) <=> PendingAllSent(i))
        /\ (hist[i].pending = <<>> /\ i + 2 <= Len(hist)) =>
               /\ hist[i + 2].t = "send"
               /\ hist[i + 2].b.id = hist[i].first
        /\ (hist[i].pending = <<>> /\ i + 1 = Len(hist)) =>
               /\ pc[hist[i].p] = "send"
               /\ Head(queue[hist[i].p]).id = hist[i].first

\* with fan-out, a call without samples has sent its one batch, and another
\* such call, made while a batch was pending whose send failed again, has
\* ended without its batch being attempted
C31_Witness ==
    /\ per_meter_topic
    /\ \E i \in EmptyPublishes :
          /\ hist[i].pending = <<>>
          /\ \E j \in SendsOf(i) : hist[j].b.id = hist[i].first
    /\ \E i \in EmptyPublishes :
          /\ hist[i].pending # <<>>
          /\ SpanOf(i) \cap Ends # {}
          /\ ~AttemptedInOwnFlush(i)

\* --------------------------------------------------------------- C32
\* the policy the URL asks for: the last value of the option
PolicyAsked == OptionGet(url_options, "policy", "default")

\* C32: the retry the transport client is created with follows the effective
\* policy: 1 under queue and drop, unset under default, and so unset for a
\* publisher whose URL asks for a policy that is none of the three.
C32_RetryFollowsEffectivePolicy ==
    /\ policy \in {"queue", "drop"} => TransportRetry = <<1>>
    /\ policy = "default" => TransportRetry = <<>>
    /\ PolicyAsked \in {"queue", "drop"} => TransportRetry = <<1>>
    /\ PolicyAsked \notin {"queue", "drop"} =>
           policy = "default" /\ TransportRetry = <<>>

\* a publisher whose URL asks for an unknown policy has called _send() with
\* the retry unset
C32_Witness ==
    /\ PolicyAsked \notin {"default", "queue", "drop"}
    /\ policy = "default"
    /\ TransportRetry = <<>>
    /\ Sends(hist) # {}

====
